---- MODULE Spec2Model ----
(***************************************************************************)
(* Model of the windowed transaction graph of src/src/graph.py (TxGraph)   *)
(* and of the rolling median of node degrees it maintains.                 *)
(*                                                                         *)
(* Representation.                                                         *)
(*  - A party identifier (a Python str) is a sequence of character codes;  *)
(*    "<" on identifiers is Python's lexicographic order (Lt).            *)
(*  - None is the one-element sequence <<-1>>, which is no string.         *)
(*  - A SortedDict is a function; its iteration order is rebuilt where the *)
(*    code iterates (MinKey / MinName).                                    *)
(*  - The median is a Python float that is always a multiple of 0.5; it is *)
(*    kept in HALVES: the variable median holds twice the float.           *)
(*  - A raise is the field raised = TRUE of an operation's result; the     *)
(*    state it carries is the state at the point of the raise.  A method   *)
(*    whose statements follow one another is written as operators that     *)
(*    pass the result on (Then...), a raise ending the chain.              *)
(*  - An Edge object sits under its name in edgeMap and in one bucket of   *)
(*    txMap; both hold the same record, and the one assignment to an       *)
(*    attribute of a stored Edge (tstamp, in MoveEdge) writes both.        *)
(*  - The driver of src/src/rolling_median.py adds the output file (the    *)
(*    lines written, each a formatted median), the messages printed and    *)
(*    the number of input lines consumed.                                  *)
(*  - tracked and latest are history variables; no operation reads them.   *)
(*                                                                         *)
(* Specifications.  Spec: any caller, any arguments.  SpecMedian: the      *)
(* median computation on any node index.  SpecResend, SpecIncreasing,      *)
(* SpecAccepted, SpecReceived: callers of the graph with a history kept.   *)
(* SpecDriver: the loop of process_payments over the lines of a file.      *)
(***************************************************************************)
EXTENDS Integers, Sequences, FiniteSets, TLC

VARIABLES median, highMarker, lowMarker, txMap, edgeMap, nodeMap, tracked,
          ofile, stdout, lineno, latest

\* tracked is a history variable: one call that was singled out (an earlier one
\* whose resend is looked at, or the latest one); no operation reads it
\* latest is a history variable too: for every unordered pair of parties, the
\* largest timestamp of the transactions between them that were recorded
vars == <<median, highMarker, lowMarker, txMap, edgeMap, nodeMap, tracked,
          ofile, stdout, lineno, latest>>

\* the driver of src/src/rolling_median.py: the lines written to the output
\* file, the error messages printed, and the number of input lines consumed
driver == <<ofile, stdout, lineno>>

(***************************************************************************)
(* Program constant and model bounds.                                      *)
(***************************************************************************)
WINDOW_SIZE == 60

\* timestamps 0 .. MaxEarly lie around the initial lowMarker (1): 0 is below it
MaxEarly == 2
\* the largest degree of a node handed to the median computation on its own
MaxDegree == 4

\* one and two window steps later: a call at MaxEarly + WINDOW_SIZE - 1 moves
\* lowMarker to MaxEarly exactly, a call at the second moves it to the first
Times == (0 .. MaxEarly) \cup {MaxEarly + WINDOW_SIZE - 1, MaxEarly + 2 * (WINDOW_SIZE - 1)}

(***************************************************************************)
(* Party identifiers.  58 is ":", 97.. are "a", "b", "c".                  *)
(***************************************************************************)
Colon == <<58>>
None == <<-1>>
EmptyStr == <<>>

P_a == <<97>>
P_a_b == <<97, 58, 98>>
P_b == <<98>>
P_b_c == <<98, 58, 99>>
P_c == <<99>>

\* "a", "a:b", "b:c", "c"
Parties == {P_a, P_a_b, P_b_c, P_c}
\* what a caller may pass as source or target
Inputs == Parties \cup {None, EmptyStr}

EmptyMap == [k \in {} |-> 0]

\* no call has been singled out
NoCall == [tstamp |-> -1, source |-> None, target |-> None]

\* Python's str "<": the first differing character decides, a proper prefix is smaller
Lt(s, t) ==
    \/ \E i \in 1 .. Len(s) :
          /\ i <= Len(t)
          /\ s[i] < t[i]
          /\ \A j \in 1 .. (i - 1) : s[j] = t[j]
    \/ /\ Len(s) < Len(t)
       /\ \A j \in 1 .. Len(s) : s[j] = t[j]

\* ":".join([x, y])
Join(x, y) == x \o Colon \o y

\* derive_name that keeps the order of its arguments
derive_name_unsorted(node1, node2) == Join(node1, node2)

\* Edge.derive_name
derive_name(node1, node2) ==
    IF Lt(node1, node2) THEN Join(node1, node2) ELSE Join(node2, node1)

\* Edge.__init__
Edge(tstamp, node1, node2) ==
    [tstamp |-> tstamp,
     source |-> IF Lt(node1, node2) THEN node1 ELSE node2,
     target |-> IF Lt(node1, node2) THEN node2 ELSE node1,
     name   |-> derive_name(node1, node2)]

\* Node.__init__
Node(name) == [name |-> name, degree |-> 0]

\* EdgeList.__init__ : the edges dict of a new bucket
EdgeList(tstamp) == EmptyMap

\* dict assignment d[k] = v and deletion del d[k]
Put(d, k, v) == [x \in (DOMAIN d) \cup {k} |-> IF x = k THEN v ELSE d[x]]
Del(d, k) == [x \in (DOMAIN d) \ {k} |-> d[x]]

\* first key of a SortedDict keyed by strings / by integers
MinName(S) == CHOOSE x \in S : \A y \in S : x = y \/ Lt(x, y)
MinKey(S) == CHOOSE x \in S : \A y \in S : x <= y
MaxKey(S) == CHOOSE x \in S : \A y \in S : y <= x

(***************************************************************************)
(* TxGraph.__calculate_median                                              *)
(***************************************************************************)
\* SortedList.add
SortedAdd(s, x) ==
    LET k == Cardinality({i \in 1 .. Len(s) : s[i] <= x})
    IN  SubSeq(s, 1, k) \o <<x>> \o SubSeq(s, k + 1, Len(s))

RECURSIVE DegreeList(_, _)
\* the loop over nodeMap.itervalues(), in key order
DegreeList(nm, names) ==
    IF names = {} THEN <<>>
    ELSE LET n == MinName(names)
             rest == DegreeList(nm, names \ {n})
         IN  IF nm[n].degree > 0 THEN SortedAdd(rest, nm[n].degree) ELSE rest

\* degreeList[i] with Python's 0-based index
At(s, i) == s[i + 1]

\* calculate_median with the upper middle element taken for an even length
calculate_median_upper(nm) ==
    LET degreeList == DegreeList(nm, DOMAIN nm)
        listLen == Len(degreeList)
    IN  IF listLen = 0 THEN [raised |-> TRUE, value |-> 0]
        ELSE [raised |-> FALSE, value |-> 2 * At(degreeList, listLen \div 2)]

\* result: raised, or value = twice the float returned
calculate_median(nm) ==
    LET degreeList == DegreeList(nm, DOMAIN nm)
        listLen == Len(degreeList)
    IN  IF listLen = 0 THEN [raised |-> TRUE, value |-> 0]
        ELSE IF listLen = 1 THEN [raised |-> FALSE, value |-> 2 * At(degreeList, 0)]
        ELSE IF listLen % 2 = 0
             THEN [raised |-> FALSE,
                   value |-> At(degreeList, listLen \div 2)
                             + At(degreeList, (listLen \div 2) - 1)]
        ELSE [raised |-> FALSE, value |-> 2 * At(degreeList, listLen \div 2)]

(***************************************************************************)
(* The graph object: self is a record of the six attributes.               *)
(***************************************************************************)
Self == [median |-> median, highMarker |-> highMarker, lowMarker |-> lowMarker,
         txMap |-> txMap, edgeMap |-> edgeMap, nodeMap |-> nodeMap]

\* TxGraph.__init__
TxGraphInit ==
    [median |-> 0, highMarker |-> WINDOW_SIZE, lowMarker |-> 1,
     txMap |-> EmptyMap, edgeMap |-> EmptyMap, nodeMap |-> EmptyMap]

Ok(g) == [self |-> g, raised |-> FALSE]
Raise(g) == [self |-> g, raised |-> TRUE]

\* TxGraph.__get_edgelist(tstamp, create=True): the map with the bucket present
get_edgelist(g, tstamp) ==
    IF tstamp \in DOMAIN g.txMap THEN g
    ELSE [g EXCEPT !.txMap = Put(g.txMap, tstamp, EdgeList(tstamp))]

\* TxGraph.__getnode_with_name(name, create=True)
getnode_with_name(g, name) ==
    IF name \in DOMAIN g.nodeMap THEN g
    ELSE [g EXCEPT !.nodeMap = Put(g.nodeMap, name, Node(name))]

\* Node.incr_degree on the node of that name
incr_degree(g, name) ==
    LET g1 == getnode_with_name(g, name)
    IN  [g1 EXCEPT !.nodeMap[name].degree = g1.nodeMap[name].degree + 1]

\* TxGraph.__incr_degree_of_edge_nodes
incr_degree_of_edge_nodes(g, edge) ==
    incr_degree(incr_degree(g, edge.source), edge.target)

\* decr_degree_of_node without the removal of a node whose degree reaches 0
decr_degree_of_node_keep(g, name) ==
    IF name \notin DOMAIN g.nodeMap THEN Raise(g)
    ELSE Ok([g EXCEPT !.nodeMap[name].degree = g.nodeMap[name].degree - 1])

\* TxGraph.__decr_degree_of_node: a missing node is None, and None.decr_degree() raises
decr_degree_of_node(g, name) ==
    IF name \notin DOMAIN g.nodeMap THEN Raise(g)
    ELSE LET d == g.nodeMap[name].degree - 1
         IN  IF d = 0
             THEN Ok([g EXCEPT !.nodeMap = Del(g.nodeMap, name)])
             ELSE Ok([g EXCEPT !.nodeMap[name].degree = d])

\* the second statement of __decr_degree_of_edge_nodes, reached unless the first raised
ThenDecrTarget(r, edge) ==
    IF r.raised THEN r ELSE decr_degree_of_node(r.self, edge.target)

\* TxGraph.__decr_degree_of_edge_nodes
decr_degree_of_edge_nodes(g, edge) ==
    ThenDecrTarget(decr_degree_of_node(g, edge.source), edge)

\* del self.edgeMap[edge.name], reached unless the decrements raised
ThenDelEdge(r, edge) ==
    IF r.raised THEN r
    ELSE IF edge.name \notin DOMAIN r.self.edgeMap THEN Raise(r.self)
    ELSE Ok([r.self EXCEPT !.edgeMap = Del(r.self.edgeMap, edge.name)])

\* remove_edge that leaves the degrees of the edge's nodes as they are
remove_edge_nodecr(g, edge) == ThenDelEdge(Ok(g), edge)

\* TxGraph.__remove_edge
remove_edge(g, edge) == ThenDelEdge(decr_degree_of_edge_nodes(g, edge), edge)

RECURSIVE RemoveEdges(_, _, _)
\* the inner loop of __update_tx_window over edgeList.edges.itervalues(), in
\* key order, from the result r so far; a raise ends it
RemoveEdges(r, edges, names) ==
    IF r.raised \/ names = {} THEN r
    ELSE LET n == MinName(names)
         IN  RemoveEdges(remove_edge(r.self, edges[n]), edges, names \ {n})

RECURSIVE EvictBuckets(_, _)
\* the outer loop of __update_tx_window over the keys below lowMarker, ascending
EvictBuckets(r, keys) ==
    IF r.raised \/ keys = {} THEN r
    ELSE LET k == MinKey(keys)
         IN  EvictBuckets(RemoveEdges(r, r.self.txMap[k], DOMAIN r.self.txMap[k]),
                          keys \ {k})

\* StaleKeys with the bucket at lowMarker itself taken too
StaleKeys_inclusive(g) == {k \in DOMAIN g.txMap : k <= g.lowMarker}

\* the keys txMap.irange(None, lowMarker, inclusive=(True, False)) yields
StaleKeys(g) == {k \in DOMAIN g.txMap : k < g.lowMarker}

\* DeleteStale that leaves the stale buckets in the bucket index
DeleteStale_keep(r, stale) == r

\* "lets delete the stale edgelists": if lastTStamp is truthy, every bucket up to
\* its index goes (graph.py 260-262)
DeleteStale(r, stale) ==
    IF r.raised THEN r
    ELSE IF stale = {} \/ MaxKey(stale) = 0 THEN r
    ELSE Ok([r.self EXCEPT !.txMap =
                [k \in {x \in DOMAIN r.self.txMap : x > MaxKey(stale)}
                    |-> r.self.txMap[k]]])

\* TxGraph.__update_tx_window
update_tx_window(g) == DeleteStale(EvictBuckets(Ok(g), StaleKeys(g)), StaleKeys(g))

\* MoveEdge that leaves the edge in the bucket of its old timestamp as well
MoveEdge_copy(g, currEdge, tstamp) ==
    LET moved == [currEdge EXCEPT !.tstamp = tstamp]
        g1 == [g EXCEPT !.edgeMap[currEdge.name] = moved]
        g2 == get_edgelist(g1, tstamp)
    IN  Ok([g2 EXCEPT !.txMap[tstamp] = Put(@, currEdge.name, moved)])

\* the move of an edge to the bucket of its new timestamp (graph.py 229-238)
MoveEdge(g, currEdge, tstamp) ==
    IF currEdge.tstamp \notin DOMAIN g.txMap THEN Raise(g)
    ELSE IF currEdge.name \notin DOMAIN g.txMap[currEdge.tstamp] THEN Raise(g)
    ELSE LET moved == [currEdge EXCEPT !.tstamp = tstamp]
             g1 == [g EXCEPT !.txMap[currEdge.tstamp] = Del(@, currEdge.name),
                             !.edgeMap[currEdge.name] = moved]
             g2 == get_edgelist(g1, tstamp)
         IN  Ok([g2 EXCEPT !.txMap[tstamp] = Put(@, currEdge.name, moved)])

\* update_tstamp_for_existing_edge that also counts the repeat in the degrees
update_tstamp_for_existing_edge_count(g, edgeName, tstamp) ==
    IF edgeName \notin DOMAIN g.edgeMap THEN Raise(g)
    ELSE IF tstamp <= g.edgeMap[edgeName].tstamp THEN Ok(g)
    ELSE LET r == MoveEdge(g, g.edgeMap[edgeName], tstamp)
         IN  IF r.raised THEN r
             ELSE Ok(incr_degree_of_edge_nodes(r.self, g.edgeMap[edgeName]))

\* update_tstamp_for_existing_edge that moves the edge to an older timestamp too
update_tstamp_for_existing_edge_backward(g, edgeName, tstamp) ==
    IF edgeName \notin DOMAIN g.edgeMap THEN Raise(g)
    ELSE IF tstamp = g.edgeMap[edgeName].tstamp THEN Ok(g)
    ELSE MoveEdge(g, g.edgeMap[edgeName], tstamp)

\* TxGraph.__update_tstamp_for_existing_edge
update_tstamp_for_existing_edge(g, edgeName, tstamp) ==
    IF edgeName \notin DOMAIN g.edgeMap THEN Raise(g)
    ELSE IF tstamp <= g.edgeMap[edgeName].tstamp THEN Ok(g)
    ELSE MoveEdge(g, g.edgeMap[edgeName], tstamp)

\* the assignment of the computed median m, or its raise (graph.py 310, 335)
StoreMedian(g, m) ==
    IF m.raised THEN Raise(g) ELSE Ok([g EXCEPT !.median = m.value])

\* self.median = self.__calculate_median(), reached unless r raised
SetMedian(r) ==
    IF r.raised THEN r ELSE StoreMedian(r.self, calculate_median(r.self.nodeMap))

\* InsertEdge without the increment of the degrees of the edge's nodes
InsertEdge_nodegree(g, newEdge) ==
    LET g1 == get_edgelist(g, newEdge.tstamp)
    IN  Ok([g1 EXCEPT !.txMap[newEdge.tstamp] = Put(@, newEdge.name, newEdge),
                      !.edgeMap = Put(g1.edgeMap, newEdge.name, newEdge)])

\* the insertion of a new edge and its degrees (graph.py 305-309, 330-333)
InsertEdge(g, newEdge) ==
    LET g1 == get_edgelist(g, newEdge.tstamp)
        g2 == [g1 EXCEPT !.txMap[newEdge.tstamp] = Put(@, newEdge.name, newEdge),
                         !.edgeMap = Put(g1.edgeMap, newEdge.name, newEdge)]
    IN  Ok(incr_degree_of_edge_nodes(g2, newEdge))

\* InvalidNode without the test for a self-loop
InvalidNode_noself(source, target) ==
    \/ source = None \/ target = None
    \/ Len(source) = 0 \/ Len(target) = 0

\* the sanity checks of process_transaction (graph.py 277-284): each raises
InvalidNode(source, target) ==
    \/ source = None \/ target = None
    \/ Len(source) = 0 \/ Len(target) = 0
    \/ source = target

\* IsStale against the initial lowMarker instead of the current one
IsStale_initial(g, tstamp) == tstamp < 1

\* IsStale that takes a timestamp equal to lowMarker for stale too
IsStale_inclusive(g, tstamp) == tstamp <= g.lowMarker

\* "timestamp of the transaction is old and can be ignored" (graph.py 287)
IsStale(g, tstamp) == tstamp < g.lowMarker

\* InWindow that never holds: every transaction that is not stale moves the window
InWindow_never(g, tstamp) == FALSE

\* the window test of Path A (graph.py 293)
InWindow(g, tstamp) == tstamp <= g.highMarker

\* AdvanceMarkers with a window one unit too wide
AdvanceMarkers_wide(g, tstamp) ==
    [g EXCEPT !.highMarker = tstamp, !.lowMarker = tstamp - WINDOW_SIZE]

\* the two marker assignments of Path B (graph.py 322-323)
AdvanceMarkers(g, tstamp) ==
    [g EXCEPT !.highMarker = tstamp, !.lowMarker = tstamp - WINDOW_SIZE + 1]

\* what a call leaves: the object, whether it raised, the return or raise point
Left(r, path) == [self |-> r.self, raised |-> r.raised, path |-> path]

\* PathA that inserts a new edge without recomputing the median
PathA_nomedian(g, newEdge) ==
    IF newEdge.name \in DOMAIN g.edgeMap
    THEN Left(update_tstamp_for_existing_edge(g, newEdge.name, newEdge.tstamp),
              "repeat")
    ELSE Left(InsertEdge(g, newEdge), "new")

\* Path A: the transaction is within the window (graph.py 293-311)
PathA(g, newEdge) ==
    IF newEdge.name \in DOMAIN g.edgeMap
    THEN Left(update_tstamp_for_existing_edge(g, newEdge.name, newEdge.tstamp),
              "repeat")
    ELSE Left(SetMedian(InsertEdge(g, newEdge)), "new")

\* Path B after __update_tx_window left w (graph.py 327-335)
PathB(w, newEdge) ==
    IF w.raised THEN Left(w, "advance")
    ELSE IF newEdge.name \in DOMAIN w.self.edgeMap
    THEN Left(SetMedian(update_tstamp_for_existing_edge(w.self, newEdge.name,
                                                        newEdge.tstamp)),
              "advance_repeat")
    ELSE Left(SetMedian(InsertEdge(w.self, newEdge)), "advance_new")

\* process_transaction that, on a window advance, looks the edge up before the
\* eviction and refreshes it after
process_transaction_lookup_first(g, tstamp, source, target) ==
    IF InvalidNode(source, target) THEN Left(Raise(g), "invalid")
    ELSE IF IsStale(g, tstamp) THEN Left(Ok(g), "stale")
    ELSE IF InWindow(g, tstamp) THEN PathA(g, Edge(tstamp, source, target))
    ELSE IF derive_name(source, target) \in DOMAIN g.edgeMap
    THEN Left(SetMedian(update_tstamp_for_existing_edge(
                            update_tx_window(AdvanceMarkers(g, tstamp)).self,
                            derive_name(source, target), tstamp)),
              "advance_repeat")
    ELSE PathB(update_tx_window(AdvanceMarkers(g, tstamp)),
               Edge(tstamp, source, target))

\* TxGraph.process_transaction
process_transaction(g, tstamp, source, target) ==
    IF InvalidNode(source, target) THEN Left(Raise(g), "invalid")
    ELSE IF IsStale(g, tstamp) THEN Left(Ok(g), "stale")
    ELSE IF InWindow(g, tstamp) THEN PathA(g, Edge(tstamp, source, target))
    ELSE PathB(update_tx_window(AdvanceMarkers(g, tstamp)),
               Edge(tstamp, source, target))

(***************************************************************************)
(* The state machine: any caller, any arguments, one call at a time.       *)
(***************************************************************************)
Init ==
    /\ median = TxGraphInit.median
    /\ highMarker = TxGraphInit.highMarker
    /\ lowMarker = TxGraphInit.lowMarker
    /\ txMap = TxGraphInit.txMap
    /\ edgeMap = TxGraphInit.edgeMap
    /\ nodeMap = TxGraphInit.nodeMap
    /\ tracked = NoCall
    /\ ofile = <<>>
    /\ stdout = <<>>
    /\ lineno = 0
    /\ latest = EmptyMap

\* one call of process_transaction, run to its return or raise: the object is
\* left as the call left it, also when it raised
Call(tstamp, source, target) ==
    \E r \in {process_transaction(Self, tstamp, source, target)} :
        /\ median' = r.self.median
        /\ highMarker' = r.self.highMarker
        /\ lowMarker' = r.self.lowMarker
        /\ txMap' = r.self.txMap
        /\ edgeMap' = r.self.edgeMap
        /\ nodeMap' = r.self.nodeMap

ProcessTransaction(tstamp, source, target) ==
    /\ Call(tstamp, source, target)
    /\ UNCHANGED tracked
    /\ UNCHANGED driver
    /\ UNCHANGED latest

Next == \E tstamp \in Times, source \in Inputs, target \in Inputs :
            ProcessTransaction(tstamp, source, target)

Spec == Init /\ [][Next]_vars

(***************************************************************************)
(* The median computation on its own: any node index, one computation.     *)
(***************************************************************************)
MedianNames == Parties \cup {P_b}

\* every node index over MedianNames with degrees 0 .. MaxDegree
NodeMaps ==
    UNION {[S -> 0 .. MaxDegree] : S \in SUBSET MedianNames}

InitMedian ==
    /\ median = TxGraphInit.median
    /\ highMarker = TxGraphInit.highMarker
    /\ lowMarker = TxGraphInit.lowMarker
    /\ txMap = TxGraphInit.txMap
    /\ edgeMap = TxGraphInit.edgeMap
    /\ \E degs \in NodeMaps :
          nodeMap = [n \in DOMAIN degs |-> [name |-> n, degree |-> degs[n]]]
    /\ tracked = NoCall
    /\ ofile = <<>>
    /\ stdout = <<>>
    /\ lineno = 0
    /\ latest = EmptyMap

\* self.median = self.__calculate_median(); a raise leaves the median as it was
CalculateMedian ==
    /\ \E m \in {calculate_median(nodeMap)} :
          median' = IF m.raised THEN median ELSE m.value
    /\ UNCHANGED <<highMarker, lowMarker, txMap, edgeMap, nodeMap, tracked>>
    /\ UNCHANGED driver
    /\ UNCHANGED latest

NextMedian == CalculateMedian

SpecMedian == InitMedian /\ [][NextMedian]_vars

(***************************************************************************)
(* The same callers, with one call singled out for later reference.        *)
(***************************************************************************)
ProcessTracked(tstamp, source, target) ==
    /\ tracked = NoCall
    /\ Call(tstamp, source, target)
    /\ tracked' = [tstamp |-> tstamp, source |-> source, target |-> target]
    /\ UNCHANGED driver
    /\ UNCHANGED latest

\* the parties of these callers: "a", "a:b", "c"
ResendParties == {P_a, P_a_b, P_c}

NextResend ==
    \E tstamp \in Times, source \in ResendParties, target \in ResendParties :
        \/ ProcessTransaction(tstamp, source, target)
        \/ ProcessTracked(tstamp, source, target)

SpecResend == Init /\ [][NextResend]_vars

(***************************************************************************)
(* A caller whose valid transactions arrive with strictly increasing       *)
(* timestamps; tracked holds the latest call.                              *)
(***************************************************************************)
ProcessLater(tstamp, source, target) ==
    /\ tstamp > tracked.tstamp
    /\ source # target
    /\ Call(tstamp, source, target)
    /\ tracked' = [tstamp |-> tstamp, source |-> source, target |-> target]
    /\ UNCHANGED driver
    /\ UNCHANGED latest

NextIncreasing ==
    \E tstamp \in Times, source \in Parties, target \in Parties :
        ProcessLater(tstamp, source, target)

SpecIncreasing == Init /\ [][NextIncreasing]_vars

(***************************************************************************)
(* Any caller of valid transactions, with the accepted ones recorded: a    *)
(* call is accepted if it neither raised nor returned as stale.            *)
(***************************************************************************)
\* the record with one more transaction of that pair
Recorded(h, pair, tstamp) ==
    IF pair \in DOMAIN h /\ h[pair] >= tstamp THEN h ELSE Put(h, pair, tstamp)

ProcessAccepted(tstamp, source, target) ==
    /\ source # target
    /\ \E r \in {process_transaction(Self, tstamp, source, target)} :
          /\ median' = r.self.median
          /\ highMarker' = r.self.highMarker
          /\ lowMarker' = r.self.lowMarker
          /\ txMap' = r.self.txMap
          /\ edgeMap' = r.self.edgeMap
          /\ nodeMap' = r.self.nodeMap
          /\ latest' = IF r.raised \/ r.path = "stale" THEN latest
                        ELSE Recorded(latest, {source, target}, tstamp)
    /\ UNCHANGED tracked
    /\ UNCHANGED driver

NextAccepted ==
    \E tstamp \in Times, source \in Parties, target \in Parties :
        ProcessAccepted(tstamp, source, target)

SpecAccepted == Init /\ [][NextAccepted]_vars

(***************************************************************************)
(* Any caller of valid transactions between parties whose identifiers hold *)
(* no ":", stamped 1 or later, with every transaction received recorded.   *)
(***************************************************************************)
\* "a", "b", "c"
PlainParties == {P_a, P_b, P_c}

ProcessReceived(tstamp, source, target) ==
    /\ source # target
    /\ tstamp >= 1
    /\ Call(tstamp, source, target)
    /\ latest' = Recorded(latest, {source, target}, tstamp)
    /\ UNCHANGED tracked
    /\ UNCHANGED driver

NextReceived ==
    \E tstamp \in Times, source \in PlainParties, target \in PlainParties :
        ProcessReceived(tstamp, source, target)

SpecReceived == Init /\ [][NextReceived]_vars

(***************************************************************************)
(* The driver, process_payments of src/src/rolling_median.py: one input    *)
(* line per step.  A line either fails before the call (json.loads, a      *)
(* missing key or convert_to_unixtime raises) or yields a payment; the     *)
(* graph is called with (tstamp, target, actor).  A printed message is     *)
(* kept as the text of its exception.                                      *)
(***************************************************************************)
\* the number of lines of the input file
MaxLines == 4

\* timestamps of the payments: in the first window, one and two windows later
DriverTimes == {1, MaxEarly + WINDOW_SIZE - 1, MaxEarly + 2 * (WINDOW_SIZE - 1)}

\* what a payment may hold as target or actor: "a", "a:b", "c", null, ""
DriverInputs == ResendParties \cup {None, EmptyStr}

BadLine == [parsed |-> FALSE, tstamp |-> -1, target |-> None, actor |-> None]

Payments ==
    [parsed : {TRUE}, tstamp : DriverTimes, target : DriverInputs, actor : DriverInputs]

Lines == {BadLine} \cup Payments

\* "%.2f" of the median: the whole part and the two decimals of half the halves
FormatMedian(m) == <<m \div 2, 50 * (m % 2)>>

\* str(e) of the exception of a call that raised at r
ErrorText(source, target, r) ==
    IF r.path # "invalid" THEN "No items in the degreeList"
    ELSE IF source = None \/ target = None THEN "Invalid node"
    ELSE IF Len(source) = 0 \/ Len(target) = 0 THEN "Invalid node"
    ELSE "source and target cannot be the same"

\* the driver and its graph as one record
Driver == [graph |-> Self, ofile |-> ofile, stdout |-> stdout, lineno |-> lineno]

\* the except clause: the message is printed, the loop goes on
Except(d, g, text) ==
    [graph |-> g, ofile |-> d.ofile, stdout |-> Append(d.stdout, text),
     lineno |-> d.lineno + 1]

\* ofile.write("%.2f\n" % txGraph.median) after a call that returned
Write(d, g) ==
    [graph |-> g, ofile |-> Append(d.ofile, FormatMedian(g.median)),
     stdout |-> d.stdout, lineno |-> d.lineno + 1]

\* AfterCall that writes the median whether or not the call raised
AfterCall_always(d, line, r) == Write(d, r.self)

\* the rest of the try block once process_transaction left r
AfterCall(d, line, r) ==
    IF r.raised THEN Except(d, r.self, ErrorText(line.target, line.actor, r))
    ELSE Write(d, r.self)

\* the body of the loop of process_payments for one line
process_line(d, line) ==
    IF ~line.parsed THEN Except(d, d.graph, "parse")
    ELSE AfterCall(d, line,
                   process_transaction(d.graph, line.tstamp, line.target, line.actor))

ProcessLine(line) ==
    /\ lineno < MaxLines
    /\ \E d \in {process_line(Driver, line)} :
          /\ median' = d.graph.median
          /\ highMarker' = d.graph.highMarker
          /\ lowMarker' = d.graph.lowMarker
          /\ txMap' = d.graph.txMap
          /\ edgeMap' = d.graph.edgeMap
          /\ nodeMap' = d.graph.nodeMap
          /\ ofile' = d.ofile
          /\ stdout' = d.stdout
          /\ lineno' = d.lineno
    /\ UNCHANGED tracked
    /\ UNCHANGED latest

NextDriver == \E line \in Lines : ProcessLine(line)

SpecDriver == Init /\ [][NextDriver]_vars

(***************************************************************************)
(* Notions the properties are stated in, defined without the code's        *)
(* operators: degrees by counting edges, the median by order statistics.   *)
(***************************************************************************)
\* the number of live edges of an edge index incident to party p
Incident(em, p) ==
    Cardinality({n \in DOMAIN em : em[n].source = p \/ em[n].target = p})

PositiveNodes(nm) == {n \in DOMAIN nm : nm[n].degree > 0}

CountLE(nm, d) == Cardinality({n \in PositiveNodes(nm) : nm[n].degree <= d})

\* the i-th smallest positive degree, duplicates counted (i from 1)
OrderStat(nm, i) ==
    LET ds == {nm[n].degree : n \in PositiveNodes(nm)}
    IN  CHOOSE d \in ds : /\ CountLE(nm, d) >= i
                          /\ \A e \in ds : e < d => CountLE(nm, e) < i

\* twice the median of the positive degrees (the list must not be empty)
MedianHalves(nm) ==
    LET L == Cardinality(PositiveNodes(nm))
    IN  IF L % 2 = 1 THEN 2 * OrderStat(nm, (L + 1) \div 2)
        ELSE OrderStat(nm, L \div 2) + OrderStat(nm, (L \div 2) + 1)

\* the bag of positive degrees is exactly the given one (degree |-> how many nodes)
HasDegrees(nm, bag) ==
    \A d \in 1 .. (MaxDegree + 1) :
        Cardinality({n \in PositiveNodes(nm) : nm[n].degree = d})
            = (IF d \in DOMAIN bag THEN bag[d] ELSE 0)

ValidPair(a, b) == a \in Parties /\ b \in Parties /\ a # b

\* the unordered endpoint pair of an edge
Ends(e) == {e.source, e.target}

(***************************************************************************)
(* Properties.                                                             *)
(***************************************************************************)

\* C1: once the graph holds an edge, the cached median is the median of the
\* degrees of the nodes of the node index, after every kind of call: also
\* after a repeat within the window, which returns without recomputing it.
C1_CachedMedian ==
    (edgeMap # EmptyMap \/ nodeMap # EmptyMap) =>
        /\ PositiveNodes(nodeMap) # {}
        /\ median = MedianHalves(nodeMap)

\* a repeat within the first window has refreshed an edge (it left its old bucket
\* empty) of a graph whose median is 1.5
C1_Witness ==
    /\ highMarker = WINDOW_SIZE
    /\ \E k \in DOMAIN txMap : txMap[k] = EmptyMap
    /\ \E n \in DOMAIN edgeMap : edgeMap[n].tstamp > 1
    /\ HasDegrees(nodeMap, (1 :> 2) @@ (2 :> 2))
    /\ median = 3

\* C2: for a non-empty list of positive degrees of length L the median
\* computation returns the middle element of the sorted list when L is odd and
\* the mean of the two middle elements when L is even ({1,2,3} gives 2,
\* {1,2,3,4} gives 2.5); every node counts once, and only with degree > 0.
C2_MedianParity ==
    PositiveNodes(nodeMap) # {} =>
        LET L == Cardinality(PositiveNodes(nodeMap))
        IN  \A m \in {calculate_median(nodeMap)} :
            /\ ~m.raised
            /\ L % 2 = 1 => m.value = 2 * OrderStat(nodeMap, (L + 1) \div 2)
            /\ L % 2 = 0 => m.value = OrderStat(nodeMap, L \div 2)
                                      + OrderStat(nodeMap, (L \div 2) + 1)
            /\ HasDegrees(nodeMap, (1 :> 1) @@ (2 :> 1) @@ (3 :> 1)) => m.value = 4
            /\ HasDegrees(nodeMap, (1 :> 1) @@ (2 :> 1) @@ (3 :> 1) @@ (4 :> 1))
                  => m.value = 5
            /\ median # 0 => median = m.value

\* the median of {1,2,3,4} has been computed as 2.5 beside a node of degree 0
C2_Witness ==
    /\ HasDegrees(nodeMap, (1 :> 1) @@ (2 :> 1) @@ (3 :> 1) @@ (4 :> 1))
    /\ \E n \in DOMAIN nodeMap : nodeMap[n].degree = 0
    /\ median = 5

\* C3: a call at t > highMarker evicts exactly the buckets and edges stamped
\* below the new lowMarker = t - WINDOW_SIZE + 1 (one stamped lowMarker stays),
\* takes one from the degree of both endpoints per evicted edge, drops the
\* nodes that reach 0, and only then inserts or refreshes the incoming edge.
C3_Eviction ==
    \A t \in Times : t > highMarker =>
        LET low == t - WINDOW_SIZE + 1
            kept == {n \in DOMAIN edgeMap : edgeMap[n].tstamp >= low}
            gone == (DOMAIN edgeMap) \ kept
            before(p) == IF p \in DOMAIN nodeMap THEN nodeMap[p].degree ELSE 0
            after(p) == before(p)
                        - Cardinality({n \in gone : p \in Ends(edgeMap[n])})
        IN  /\ \A w \in {update_tx_window(AdvanceMarkers(Self, t))} :
                  /\ ~w.raised
                  /\ w.self.lowMarker = low /\ w.self.highMarker = t
                  /\ DOMAIN w.self.txMap = {k \in DOMAIN txMap : k >= low}
                  /\ \A k \in DOMAIN w.self.txMap : w.self.txMap[k] = txMap[k]
                  /\ DOMAIN w.self.edgeMap = kept
                  /\ \A n \in kept : w.self.edgeMap[n] = edgeMap[n]
                  /\ DOMAIN w.self.nodeMap = {p \in DOMAIN nodeMap : after(p) > 0}
                  /\ \A p \in DOMAIN w.self.nodeMap :
                        w.self.nodeMap[p].degree = after(p)
            /\ \A a \in Parties, b \in Parties : a # b =>
                  \A r \in {process_transaction(Self, t, a, b)} :
                      LET name == derive_name(a, b)
                          bump(p) == IF name \notin kept /\ p \in {a, b} THEN 1 ELSE 0
                      IN  /\ ~r.raised
                          /\ r.self.lowMarker = low /\ r.self.highMarker = t
                          /\ DOMAIN r.self.edgeMap = kept \cup {name}
                          /\ r.self.edgeMap[name].tstamp = t
                          /\ \A n \in kept \ {name} : r.self.edgeMap[n] = edgeMap[n]
                          /\ DOMAIN r.self.txMap
                                = {k \in DOMAIN txMap : k >= low} \cup {t}
                          /\ DOMAIN r.self.nodeMap
                                = {p \in Parties : after(p) + bump(p) > 0}
                          /\ \A p \in DOMAIN r.self.nodeMap :
                                r.self.nodeMap[p].degree = after(p) + bump(p)

\* a window about to advance over an edge stamped below the new lowMarker while
\* another one is stamped exactly the new lowMarker
C3_Witness ==
    \E t \in Times :
        /\ t > highMarker
        /\ \E n \in DOMAIN edgeMap : edgeMap[n].tstamp < t - WINDOW_SIZE + 1
        /\ \E n \in DOMAIN edgeMap : edgeMap[n].tstamp = t - WINDOW_SIZE + 1

\* C4: the markers always satisfy lowMarker = highMarker - WINDOW_SIZE + 1 with
\* WINDOW_SIZE = 60, from highMarker = 60 and lowMarker = 1 on.
C4_WindowSpan ==
    /\ WINDOW_SIZE = 60
    /\ lowMarker = highMarker - 60 + 1
    /\ edgeMap = EmptyMap => (highMarker = 60 /\ lowMarker = 1)
    /\ highMarker >= 60

\* the window has advanced twice
C4_Witness ==
    /\ highMarker = MaxEarly + 2 * (WINDOW_SIZE - 1)
    /\ lowMarker = MaxEarly + WINDOW_SIZE - 1

\* C5: between calls a party is in the node index exactly if a live edge is
\* incident to it, and its degree is the number of those edges; no node of
\* degree 0 or below is present.
C5_NodeDegrees ==
    /\ DOMAIN nodeMap = {p \in Parties : Incident(edgeMap, p) > 0}
    /\ \A p \in DOMAIN nodeMap :
          /\ nodeMap[p].degree = Incident(edgeMap, p)
          /\ nodeMap[p].degree > 0
          /\ nodeMap[p].name = p
    /\ \A n \in DOMAIN edgeMap : Ends(edgeMap[n]) \subseteq DOMAIN nodeMap

\* the window has advanced and passed every early edge; of the edges stamped
\* since, one party has two and another party has none
C5_Witness ==
    /\ lowMarker > MaxEarly
    /\ DOMAIN nodeMap # Parties
    /\ \E p \in DOMAIN nodeMap : nodeMap[p].degree = 2

\* C6: a call with an absent (None) or empty party, or with both parties equal,
\* raises whatever the timestamp and the state, and leaves the edge index, the
\* bucket index, the node index, both markers and the cached median as they were.
C6_RejectedCall ==
    \A t \in Times, a \in Inputs, b \in Inputs :
        (a = None \/ b = None \/ a = EmptyStr \/ b = EmptyStr \/ a = b) =>
            \A r \in {process_transaction(Self, t, a, b)} :
                /\ r.raised
                /\ r.self.edgeMap = edgeMap
                /\ r.self.txMap = txMap
                /\ r.self.nodeMap = nodeMap
                /\ r.self.lowMarker = lowMarker
                /\ r.self.highMarker = highMarker
                /\ r.self.median = median

\* a graph with edges in several buckets, an advanced window and a median of
\* 1.5, which a rejected call has to leave as it is
C6_Witness ==
    /\ Cardinality(DOMAIN edgeMap) >= 3
    /\ Cardinality(DOMAIN txMap) >= 2
    /\ highMarker > WINDOW_SIZE
    /\ median = 3

\* C7: a valid transaction stamped below lowMarker is ignored: the call returns
\* without raising and changes nothing; one stamped exactly lowMarker is not
\* stale and is processed (its edge is live afterwards).
C7_StaleIgnored ==
    \A t \in Times, a \in Parties, b \in Parties :
        a # b =>
            \A r \in {process_transaction(Self, t, a, b)} :
                /\ t < lowMarker =>
                      /\ ~r.raised
                      /\ r.self = Self
                /\ t = lowMarker =>
                      /\ ~r.raised
                      /\ r.path \in {"repeat", "new"}
                      /\ derive_name(a, b) \in DOMAIN r.self.edgeMap
                      /\ r.self.edgeMap[derive_name(a, b)].tstamp >= t
                      /\ derive_name(a, b) \notin DOMAIN edgeMap => r.self # Self

\* a graph with edges whose window has moved, so that one timestamp callers send
\* is now below lowMarker, though it was not at first, and another is lowMarker
C7_Witness ==
    /\ \E t \in Times : 1 <= t /\ t < lowMarker
    /\ lowMarker \in Times
    /\ lowMarker > 1
    /\ edgeMap # EmptyMap
    /\ \E a \in Parties, b \in Parties :
          a # b /\ derive_name(a, b) \notin DOMAIN edgeMap

\* C8: the order of the two parties is irrelevant: (t, a, b) and (t, b, a) give
\* the same resulting state, both build the edge named min:max with source min
\* and target max, and sending one after the other creates no second edge.
C8_ArgumentOrder ==
    \A t \in Times, a \in Parties, b \in Parties :
        Lt(a, b) =>
            \A r1 \in {process_transaction(Self, t, a, b)},
               r2 \in {process_transaction(Self, t, b, a)} :
            \A r12 \in {process_transaction(r1.self, t, b, a)},
               r21 \in {process_transaction(r2.self, t, a, b)} :
                /\ r1 = r2
                /\ Edge(t, a, b) = Edge(t, b, a)
                /\ Edge(t, b, a).name = a \o Colon \o b
                /\ Edge(t, b, a).source = a
                /\ Edge(t, b, a).target = b
                /\ derive_name(b, a) = a \o Colon \o b
                /\ r1.path # "stale" =>
                      /\ (a \o Colon \o b) \in DOMAIN r1.self.edgeMap
                      /\ Cardinality(DOMAIN r1.self.edgeMap)
                            <= Cardinality(DOMAIN edgeMap) + 1
                /\ r12.self = r1.self
                /\ r21.self = r2.self
                /\ r12.path \in {"stale", "repeat"}

\* a graph of several edges where a pair's edge is live, so that the pair in
\* either order is a repeat, and another pair's is not: either order inserts it
C8_Witness ==
    /\ Cardinality(DOMAIN edgeMap) >= 2
    /\ \E a \in Parties, b \in Parties :
          a # b /\ derive_name(a, b) \notin DOMAIN edgeMap
    /\ \E n \in DOMAIN edgeMap :
          /\ Lt(edgeMap[n].source, edgeMap[n].target)
          /\ n = edgeMap[n].source \o Colon \o edgeMap[n].target

\* C9: the edge name is a unique key of the unordered pair of parties, also for
\* identifiers that contain ":": a transaction is handled as a repeat (no
\* degree change) only if a live edge between the same two parties exists, and
\* after an accepted transaction a live edge joins its two parties.
C9_UniqueKey ==
    \A t \in Times, a \in Parties, b \in Parties :
        a # b =>
            \A r \in {process_transaction(Self, t, a, b)} :
                /\ r.path \in {"repeat", "advance_repeat"} =>
                      \E n \in DOMAIN edgeMap : Ends(edgeMap[n]) = {a, b}
                /\ r.path # "stale" =>
                      \E n \in DOMAIN r.self.edgeMap :
                          Ends(r.self.edgeMap[n]) = {a, b}

\* C10: once a transaction (t, a, b) has been processed, a transaction between a
\* and b with a timestamp t' <= t, sent at any later point, changes neither the
\* cached median nor the degree of any node.
C10_ResendNoChange ==
    tracked # NoCall =>
        \A t \in Times : t <= tracked.tstamp =>
            \A r1 \in {process_transaction(Self, t, tracked.source, tracked.target)},
               r2 \in {process_transaction(Self, t, tracked.target, tracked.source)} :
                /\ r1.self.median = median
                /\ r1.self.nodeMap = nodeMap
                /\ r2.self.median = median
                /\ r2.self.nodeMap = nodeMap

\* the edge of the singled-out transaction, accepted earlier, has been evicted
\* while other edges live
C10_Witness ==
    /\ tracked # NoCall
    /\ tracked.source # tracked.target
    /\ tracked.tstamp >= 1
    /\ derive_name(tracked.source, tracked.target) \notin DOMAIN edgeMap
    /\ edgeMap # EmptyMap
    /\ lowMarker > tracked.tstamp

\* C11: when valid transactions arrive with strictly increasing timestamps,
\* after each call the node index is exactly the set of parties that are an
\* endpoint of an edge whose timestamp lies in [lowMarker, highMarker].
C11_NodeIndexInWindow ==
    DOMAIN nodeMap =
        {p \in Parties :
            \E n \in DOMAIN edgeMap :
                /\ lowMarker <= edgeMap[n].tstamp
                /\ edgeMap[n].tstamp <= highMarker
                /\ p \in Ends(edgeMap[n])}

\* the latest of the increasing calls advanced the window: an edge stamped the
\* new lowMarker stayed, three parties have edges and one has none
C11_Witness ==
    /\ tracked.tstamp = highMarker
    /\ highMarker > WINDOW_SIZE
    /\ \E n \in DOMAIN edgeMap : edgeMap[n].tstamp = lowMarker
    /\ Cardinality(DOMAIN nodeMap) = 3

\* the buckets of a bucket index that hold an edge of that name
BucketsOf(tm, n) == {k \in DOMAIN tm : n \in DOMAIN tm[k]}

\* C12: every live edge is in exactly one bucket, the one keyed by its current
\* timestamp, and every edge of a bucket is the live edge of that name stamped
\* with the bucket's key; a refresh to a newer timestamp, within the window or
\* after the window advanced, takes the edge out of its old bucket, which
\* shrinks by that edge, and puts it into the bucket of the new timestamp.
C12_OneBucket ==
    /\ \A n \in DOMAIN edgeMap :
          /\ BucketsOf(txMap, n) = {edgeMap[n].tstamp}
          /\ txMap[edgeMap[n].tstamp][n] = edgeMap[n]
    /\ \A k \in DOMAIN txMap : \A n \in DOMAIN txMap[k] :
          /\ n \in DOMAIN edgeMap
          /\ txMap[k][n].tstamp = k
          /\ txMap[k][n].name = n
    /\ \A t \in Times :
          \A w \in {IF InWindow(Self, t) THEN Ok(Self)
                     ELSE update_tx_window(AdvanceMarkers(Self, t))} :
          \A n \in DOMAIN w.self.edgeMap :
              t > w.self.edgeMap[n].tstamp =>
                  \A r \in {update_tstamp_for_existing_edge(w.self, n, t)} :
                      LET old == w.self.edgeMap[n].tstamp
                      IN  /\ ~r.raised
                          /\ old \in DOMAIN r.self.txMap
                          /\ DOMAIN r.self.txMap[old]
                                = (DOMAIN w.self.txMap[old]) \ {n}
                          /\ BucketsOf(r.self.txMap, n) = {t}
                          /\ r.self.edgeMap[n].tstamp = t
                          /\ r.self.txMap[t][n] = r.self.edgeMap[n]
                          /\ \A k \in (DOMAIN w.self.txMap) \ {old, t} :
                                r.self.txMap[k] = w.self.txMap[k]

\* after the window advanced an edge was refreshed out of a bucket that is now
\* empty, beside other edges
C12_Witness ==
    /\ highMarker > WINDOW_SIZE
    /\ \E k \in DOMAIN txMap : txMap[k] = EmptyMap /\ k >= lowMarker
    /\ \E k \in DOMAIN txMap : Cardinality(DOMAIN txMap[k]) >= 2
    /\ Cardinality(DOMAIN edgeMap) >= 3

\* C13: no record aborts the stream.  A line whose parsing or whose call of
\* process_transaction raises writes no output line and leaves the graph as it
\* was, and the loop goes on to the next line; a line that does not raise, a
\* stale and ignored payment included, appends exactly one output line, the
\* cached median as it is then.  So every line consumed so far has either
\* written one line or printed one message.
C13_DriverContinues ==
    /\ lineno = Len(ofile) + Len(stdout)
    /\ \A line \in Lines :
          \A d \in {process_line(Driver, line)},
             r \in {process_transaction(Self, line.tstamp, line.target, line.actor)} :
              /\ d.lineno = lineno + 1
              /\ (~line.parsed \/ r.raised) =>
                    /\ d.ofile = ofile
                    /\ d.graph = Self
                    /\ Len(d.stdout) = Len(stdout) + 1
              /\ (line.parsed /\ ~r.raised) =>
                    /\ d.ofile = Append(ofile, FormatMedian(d.graph.median))
                    /\ d.graph = r.self
                    /\ d.stdout = stdout
              /\ (line.parsed /\ ValidPair(line.target, line.actor)
                    /\ line.tstamp < lowMarker) =>
                    /\ d.ofile = Append(ofile, FormatMedian(median))
                    /\ d.graph = Self
              /\ (line.parsed /\ ~ValidPair(line.target, line.actor)) => r.raised

\* of four lines one raised for an empty or missing party and three wrote the
\* medians 1.00, 1.00 and 2.00
C13_Witness ==
    /\ lineno = 4
    /\ stdout = <<"Invalid node">>
    /\ ofile = <<FormatMedian(2), FormatMedian(2), FormatMedian(4)>>

\* C14: the timestamp of an edge never decreases during its life.  A repeat
\* transaction stamped at or below the edge's timestamp leaves everything as it
\* was; one stamped above it sets the edge's timestamp to the new one and, in
\* the refresh itself, changes only that timestamp and the membership of the
\* two buckets: no degree, no node, no key of the edge index.  So the
\* timestamp of a live edge is always the largest timestamp among the accepted
\* transactions between its two parties.
C14_TimestampMonotone ==
    /\ \A n \in DOMAIN edgeMap :
          /\ Ends(edgeMap[n]) \in DOMAIN latest
          /\ edgeMap[n].tstamp = latest[Ends(edgeMap[n])]
    /\ \A t \in Times, a \in Parties, b \in Parties :
          (a # b /\ derive_name(a, b) \in DOMAIN edgeMap) =>
              \A r \in {process_transaction(Self, t, a, b)} :
                  LET n == derive_name(a, b)
                  IN  /\ ~r.raised
                      /\ \A m \in (DOMAIN edgeMap) \cap (DOMAIN r.self.edgeMap) :
                            r.self.edgeMap[m].tstamp >= edgeMap[m].tstamp
                      /\ t <= edgeMap[n].tstamp => r.self = Self
                      /\ (edgeMap[n].tstamp < t /\ t <= highMarker) =>
                            /\ r.self.edgeMap
                                  = [edgeMap EXCEPT ![n].tstamp = t]
                            /\ r.self.nodeMap = nodeMap
                            /\ r.self.median = median
                            /\ r.self.lowMarker = lowMarker
                            /\ r.self.highMarker = highMarker
                            /\ \A k \in (DOMAIN txMap) \ {t, edgeMap[n].tstamp} :
                                  r.self.txMap[k] = txMap[k]
    /\ \A t \in Times : t > highMarker =>
          \A w \in {update_tx_window(AdvanceMarkers(Self, t))} :
          \A n \in DOMAIN w.self.edgeMap :
              \A r \in {update_tstamp_for_existing_edge(w.self, n, t)} :
                  /\ ~r.raised
                  /\ r.self.edgeMap = [w.self.edgeMap EXCEPT ![n].tstamp = t]
                  /\ r.self.nodeMap = w.self.nodeMap
                  /\ r.self.median = w.self.median

\* the degree of party p in a node index, 0 if it has no node
DegreeOf(nm, p) == IF p \in DOMAIN nm THEN nm[p].degree ELSE 0

\* C15: on a call (t, a, b) that advances the window the eviction comes before
\* the lookup of the edge a:b.  An old edge a:b stamped below the new lowMarker
\* is evicted (a degree taken from both its endpoints, nodes dropped at zero)
\* and the transaction is handled as a new edge, the degrees of a and b going
\* up by one; an old edge that survives the eviction is refreshed to t and no
\* degree changes.  Either way the edge a:b is then live with timestamp
\* t = highMarker in bucket t, and the median has been recomputed.
C15_EvictThenLookup ==
    \A t \in Times, a \in Parties, b \in Parties :
        (a # b /\ t > highMarker) =>
            \A w \in {update_tx_window(AdvanceMarkers(Self, t))},
               r \in {process_transaction(Self, t, a, b)} :
                LET n == derive_name(a, b)
                    low == t - WINDOW_SIZE + 1
                IN  /\ ~r.raised /\ ~w.raised
                    /\ (n \in DOMAIN edgeMap /\ edgeMap[n].tstamp < low) =>
                          /\ n \notin DOMAIN w.self.edgeMap
                          /\ \A p \in Ends(edgeMap[n]) :
                                /\ DegreeOf(w.self.nodeMap, p)
                                      <= DegreeOf(nodeMap, p) - 1
                                /\ DegreeOf(w.self.nodeMap, p)
                                      = Incident(w.self.edgeMap, p)
                                /\ p \in DOMAIN w.self.nodeMap
                                      <=> Incident(w.self.edgeMap, p) > 0
                          /\ r.path = "advance_new"
                    /\ (n \in DOMAIN edgeMap /\ edgeMap[n].tstamp >= low) =>
                          /\ n \in DOMAIN w.self.edgeMap
                          /\ r.path = "advance_repeat"
                          /\ r.self.nodeMap = w.self.nodeMap
                          /\ r.self.edgeMap[n].source = edgeMap[n].source
                          /\ r.self.edgeMap[n].target = edgeMap[n].target
                    /\ r.path = "advance_new" =>
                          /\ n \notin DOMAIN w.self.edgeMap
                          /\ \A p \in Parties :
                                DegreeOf(r.self.nodeMap, p)
                                    = DegreeOf(w.self.nodeMap, p)
                                      + (IF p \in {a, b} THEN 1 ELSE 0)
                          /\ Ends(r.self.edgeMap[n]) = {a, b}
                    /\ r.path \in {"advance_new", "advance_repeat"}
                    /\ n \in DOMAIN r.self.edgeMap
                    /\ r.self.edgeMap[n].tstamp = t
                    /\ r.self.highMarker = t
                    /\ t \in DOMAIN r.self.txMap
                    /\ n \in DOMAIN r.self.txMap[t]
                    /\ BucketsOf(r.self.txMap, n) = {t}
                    /\ r.self.median = MedianHalves(r.self.nodeMap)

\* the window has advanced once and is about to advance again, over an edge
\* that the next advance evicts and beside an edge that survives it
C15_Witness ==
    /\ highMarker = MaxEarly + WINDOW_SIZE - 1
    /\ \E n \in DOMAIN edgeMap : edgeMap[n].tstamp < highMarker
    /\ \E n \in DOMAIN edgeMap : edgeMap[n].tstamp = highMarker

\* C16: the error of the median computation on an empty degree list cannot be
\* reached through process_transaction: whatever the state and the arguments,
\* a call that recomputes the median does so with at least one node of positive
\* degree, and a call raises only for arguments that the sanity checks reject.
C16_NoEmptyDegreeList ==
    \A t \in Times, a \in Inputs, b \in Inputs :
        \A r \in {process_transaction(Self, t, a, b)} :
            /\ r.raised =>
                  /\ r.path = "invalid"
                  /\ (a = None \/ b = None \/ a = EmptyStr \/ b = EmptyStr \/ a = b)
            /\ r.path \in {"new", "advance_new", "advance_repeat"} =>
                  /\ PositiveNodes(r.self.nodeMap) # {}
                  /\ ~calculate_median(r.self.nodeMap).raised
            /\ r.path # "advance"

\* the window has advanced beyond the reach of every earlier edge: the median
\* was recomputed with the incoming edge alone in the graph
C16_Witness ==
    /\ highMarker = MaxEarly + 2 * (WINDOW_SIZE - 1)
    /\ Cardinality(DOMAIN edgeMap) = 1
    /\ Cardinality(DOMAIN txMap) = 1
    /\ median = 2

Max(S) == CHOOSE x \in S : \A y \in S : y <= x

\* the window floor of the reference graph: H - WINDOW_SIZE + 1 with
\* H = max(WINDOW_SIZE, largest timestamp recorded)
ReferenceFloor(h) ==
    Max({WINDOW_SIZE} \cup {h[pr] : pr \in DOMAIN h}) - WINDOW_SIZE + 1

\* the pairs of the reference graph
ReferencePairs(h) == {pr \in DOMAIN h : h[pr] >= ReferenceFloor(h)}

\* C17: for valid transactions stamped 1 or later between parties without ":",
\* after each call the edge index is the set of unordered pairs whose most
\* recent transaction received so far is stamped H - WINDOW_SIZE + 1 or later,
\* H = max(WINDOW_SIZE, largest timestamp received so far); each edge carries
\* its pair's most recent timestamp and the node degrees are the degrees of
\* that graph, whatever the order of arrival, the records dropped as stale and
\* the evictions and re-insertions on the way.
C17_ReferenceGraph ==
    /\ {Ends(edgeMap[n]) : n \in DOMAIN edgeMap} = ReferencePairs(latest)
    /\ Cardinality(DOMAIN edgeMap) = Cardinality(ReferencePairs(latest))
    /\ \A n \in DOMAIN edgeMap :
          /\ edgeMap[n].tstamp = latest[Ends(edgeMap[n])]
          /\ n = derive_name(edgeMap[n].source, edgeMap[n].target)
    /\ \A p \in PlainParties :
          DegreeOf(nodeMap, p)
              = Cardinality({pr \in ReferencePairs(latest) : p \in pr})
    /\ DOMAIN nodeMap = UNION ReferencePairs(latest)

\* all three pairs have been received, the window has advanced, one pair's most
\* recent transaction lies below it and another pair's edge is live
C17_Witness ==
    /\ Cardinality(DOMAIN latest) = 3
    /\ highMarker > WINDOW_SIZE
    /\ \E pr \in DOMAIN latest : latest[pr] < lowMarker
    /\ \E n \in DOMAIN edgeMap : edgeMap[n].tstamp < highMarker

\* C18: the window only moves forward.  No call lowers highMarker or
\* lowMarker; highMarker is always max(WINDOW_SIZE, largest timestamp of the
\* valid transactions processed so far); a rejected call, a stale one and one
\* within the window leave both markers as they are.
C18_WindowForward ==
    /\ highMarker = Max({WINDOW_SIZE} \cup {latest[pr] : pr \in DOMAIN latest})
    /\ \A t \in Times, a \in Inputs, b \in Inputs :
          \A r \in {process_transaction(Self, t, a, b)} :
              /\ r.self.highMarker >= highMarker
              /\ r.self.lowMarker >= lowMarker
              /\ (r.raised \/ t <= highMarker) =>
                    /\ r.self.highMarker = highMarker
                    /\ r.self.lowMarker = lowMarker
              /\ (~r.raised /\ t > highMarker) =>
                    /\ r.self.highMarker = t
                    /\ r.self.lowMarker > lowMarker
              /\ r.path \in {"invalid", "stale", "repeat", "new"} <=>
                    (r.raised \/ t <= highMarker)

\* the window has advanced twice; one pair was last seen at the first advance
\* and another before it
C18_Witness ==
    /\ highMarker = MaxEarly + 2 * (WINDOW_SIZE - 1)
    /\ \E pr \in DOMAIN latest : latest[pr] = MaxEarly + WINDOW_SIZE - 1
    /\ \E pr \in DOMAIN latest : latest[pr] <= MaxEarly

\* C19: the cached median is 0 exactly as long as no edge has been inserted,
\* and the graph is then as constructed; once an edge has been inserted no
\* call empties the graph again (an eviction is followed in the same call by
\* the insertion or the refresh of the incoming edge), so the edge index and
\* the node index stay non-empty and the cached median stays at 1 or above.
C19_NeverEmptyAgain ==
    /\ median = 0 <=> edgeMap = EmptyMap
    /\ edgeMap = EmptyMap <=> nodeMap = EmptyMap
    /\ edgeMap = EmptyMap => Self = TxGraphInit
    /\ edgeMap # EmptyMap => median >= 2
    /\ \A t \in Times, a \in Inputs, b \in Inputs :
          \A r \in {process_transaction(Self, t, a, b)} :
              /\ edgeMap # EmptyMap =>
                    /\ r.self.edgeMap # EmptyMap
                    /\ r.self.nodeMap # EmptyMap
                    /\ r.self.median >= 2
              /\ r.path \in {"new", "advance_new", "advance_repeat"} =>
                    /\ r.self.edgeMap # EmptyMap
                    /\ r.self.median >= 2
              /\ (edgeMap = EmptyMap /\ r.path \in {"invalid", "stale"}) =>
                    r.self.median = 0

\* the window has advanced twice, the second time over every edge but the one
\* the first advance brought, and the graph holds two edges
C19_Witness ==
    /\ highMarker = MaxEarly + 2 * (WINDOW_SIZE - 1)
    /\ \E n \in DOMAIN edgeMap : edgeMap[n].tstamp = lowMarker
    /\ Cardinality(DOMAIN edgeMap) = 2
    /\ median >= 2

\* C20: between calls every key of the bucket index and the timestamp of every
\* live edge lie in [lowMarker, highMarker], so the bucket index never holds
\* more than WINDOW_SIZE buckets: a bucket that a refresh emptied stays until
\* the window passes it and goes then, whether the timestamps arrive out of
\* order or jump far ahead.
C20_BucketsInWindow ==
    /\ \A k \in DOMAIN txMap : lowMarker <= k /\ k <= highMarker
    /\ \A n \in DOMAIN edgeMap :
          lowMarker <= edgeMap[n].tstamp /\ edgeMap[n].tstamp <= highMarker
    /\ DOMAIN txMap \subseteq lowMarker .. highMarker
    /\ Cardinality(lowMarker .. highMarker) = WINDOW_SIZE
    /\ Cardinality(DOMAIN txMap) <= WINDOW_SIZE
    /\ \A t \in Times, a \in Parties, b \in Parties :
          a # b =>
              \A r \in {process_transaction(Self, t, a, b)} :
                  \A k \in DOMAIN txMap :
                      /\ k >= r.self.lowMarker => k \in DOMAIN r.self.txMap
                      /\ k < r.self.lowMarker => k \notin DOMAIN r.self.txMap

\* the window has advanced twice and the bucket at lowMarker, emptied by a
\* refresh, is still there beside two live edges
C20_Witness ==
    /\ highMarker = MaxEarly + 2 * (WINDOW_SIZE - 1)
    /\ lowMarker \in DOMAIN txMap
    /\ txMap[lowMarker] = EmptyMap
    /\ Cardinality(DOMAIN edgeMap) >= 2

====
